---- MODULE Spec2Model ----
(* Model of blaze's typed expression-graph prototype (src/expression.py):  *)
(* the semantic registry, the proxy factory, the graph builder              *)
(* (unit / binop / kernel / unify) and the backend oracle and evaluator.    *)
(*                                                                          *)
(* Python objects live in `heap`, a sequence of records; an object's        *)
(* identity is its index.  A Python value is a record [k, v]: k = "node"    *)
(* is a reference to heap[v], any other k is a raw host value of that       *)
(* Python type (v tells two values of one type apart).                      *)
EXTENDS Integers, Sequences, FiniteSets, TLC

(***************************************************************************)
(* Bounds of the model                                                     *)
(***************************************************************************)
MaxNodes == 5
MaxDepth == 3

(***************************************************************************)
(* Kernel enum, expression.py:31-35                                        *)
(***************************************************************************)
MAP == 0
ZIPWITH == 1
SCAN == 2
REDUCE == 3
OUTER == 4

KernelKinds == {MAP, ZIPWITH, SCAN, REDUCE, OUTER}

(***************************************************************************)
(* Values                                                                  *)
(***************************************************************************)
None == [k |-> "None", v |-> 0]
NodeRef(i) == [k |-> "node", v |-> i]

\* Raw host values handed to the builder: a number and a sequence.  Neither
\* is a graph node.
HostValues == { [k |-> "int", v |-> 2], [k |-> "list", v |-> 3] }

ScalarHosts == { x \in HostValues : x.k \in {"int", "long", "float"} }

\* Outcome of a call: the heap after it, the returned value, the exception
\* raised ("" when the call returned).
Ok(h, r) == [heap |-> h, ret |-> r, err |-> ""]
Raise(h, e) == [heap |-> h, ret |-> None, err |-> e]

isinstance(h, val, cls) == val.k = "node" /\ h[val.v].cls = cls

\* Objects that carry a `ty` attribute: instances of the views of Terminal
\* and Value (expression.py:129, 190, 207).
hasTy(h, val) == isinstance(h, val, "Terminal") \/ isinstance(h, val, "Value")

(***************************************************************************)
(* Module registry, expression.py:47-65.  A registered operation is the    *)
(* lambda's body: the builder it calls, the fixed kind / name, and whether *)
(* it passes (other, self) instead of (self, other).                       *)
(***************************************************************************)
module ==
    [ array |->
        [ __add__  |-> [fn |-> "kernel", kind |-> ZIPWITH, sym |-> "add", swap |-> FALSE],
          __radd__ |-> [fn |-> "kernel", kind |-> ZIPWITH, sym |-> "add", swap |-> TRUE],
          dot      |-> [fn |-> "kernel", kind |-> REDUCE,  sym |-> "dot", swap |-> FALSE] ],
      scalar |->
        [ __add__  |-> [fn |-> "binop", kind |-> 0, sym |-> "+", swap |-> FALSE],
          __mul__  |-> [fn |-> "binop", kind |-> 0, sym |-> "*", swap |-> FALSE] ] ]

docs == [ array |-> "A vector value", scalar |-> "A scalar value" ]

NoView == [name |-> "", ty |-> "", doc |-> "", ns |-> <<>>]

\* A _proxy that gives every view the operations of 'array'.
_proxy_all(cls, ty) ==
    IF ty \notin DOMAIN module
    THEN [err |-> "KeyError", view |-> NoView]
    ELSE [err |-> "",
          view |-> [name |-> cls, ty |-> ty, doc |-> docs[ty],
                    ns |-> module["array"]]]

\* Node._proxy, expression.py:121-131: module[ty] raises KeyError for a ty
\* that is not registered; otherwise the view type is named after cls and
\* its namespace is a copy of module[ty] plus ty and __doc__.
_proxy(cls, ty) ==
    IF ty \notin DOMAIN module
    THEN [err |-> "KeyError", view |-> NoView]
    ELSE [err |-> "",
          view |-> [name |-> cls, ty |-> ty, doc |-> docs[ty],
                    ns |-> module[ty]]]

(***************************************************************************)
(* Node constructors                                                       *)
(***************************************************************************)
\* Kernel.__init__, expression.py:157-160
Kernel(h, kind, name, args) ==
    Ok(Append(h, [cls |-> "Kernel", kind |-> kind, name |-> name, args |-> args]),
       NodeRef(Len(h) + 1))

\* Op.__init__, expression.py:166-169
Op(h, op, lhs, rhs) ==
    Ok(Append(h, [cls |-> "Op", op |-> op, left |-> lhs, right |-> rhs]),
       NodeRef(Len(h) + 1))

\* A Value that also stores itself on the node it wraps.
Value_backptr(h, ty, ast) ==
    LET p == _proxy("Value", ty) IN
    IF p.err # "" THEN Raise(h, p.err)
    ELSE LET new == Append(h, [cls |-> "Value", ty |-> ty, ast |-> ast, view |-> p.view])
         IN Ok(IF ast.k = "node" /\ new[ast.v].cls = "Op"
               THEN [new EXCEPT ![ast.v].left = NodeRef(Len(h) + 1)]
               ELSE IF ast.k = "node" /\ new[ast.v].cls = "Kernel"
               THEN [new EXCEPT ![ast.v].args = <<NodeRef(Len(h) + 1)>>]
               ELSE new,
               NodeRef(Len(h) + 1))

\* Value.__new__ / __init__, expression.py:183-191
Value(h, ty, ast) ==
    LET p == _proxy("Value", ty) IN
    IF p.err # "" THEN Raise(h, p.err)
    ELSE Ok(Append(h, [cls |-> "Value", ty |-> ty, ast |-> ast, view |-> p.view]),
            NodeRef(Len(h) + 1))

\* Terminal.__new__ / __init__, expression.py:200-208
Terminal(h, ty, src) ==
    LET p == _proxy("Terminal", ty) IN
    IF p.err # "" THEN Raise(h, p.err)
    ELSE Ok(Append(h, [cls |-> "Terminal", ty |-> ty, src |-> src, view |-> p.view]),
            NodeRef(Len(h) + 1))

(***************************************************************************)
(* Graph builder                                                           *)
(***************************************************************************)
\* unify, expression.py:71-74: e1.ty, an AttributeError when e1 has no ty.
unify(h, op, e1, e2) ==
    IF hasTy(h, e1)
    THEN [err |-> "", ty |-> h[e1.v].ty]
    ELSE [err |-> "AttributeError", ty |-> ""]

\* A unit without the Terminal test: a Terminal falls to the catch-all.
unit_rewrap(h, val) ==
    IF isinstance(h, val, "Value") THEN Ok(h, h[val.v].ast)
    ELSE IF val.k \in {"int", "long", "float"} THEN Terminal(h, "scalar", val)
    ELSE Terminal(h, "array", val)

\* A unit that hands numbers through unwrapped.
unit_raw(h, val) ==
    IF isinstance(h, val, "Value") THEN Ok(h, h[val.v].ast)
    ELSE IF isinstance(h, val, "Terminal") THEN Ok(h, val)
    ELSE IF val.k \in {"int", "long", "float"} THEN Ok(h, val)
    ELSE Terminal(h, "array", val)

\* unit, expression.py:76-92.  Every Python 2 value is an instance of
\* object, so the NotImplementedError branch is never taken.
unit(h, val) ==
    IF isinstance(h, val, "Value") THEN Ok(h, h[val.v].ast)
    ELSE IF isinstance(h, val, "Terminal") THEN Ok(h, val)
    ELSE IF val.k \in {"int", "long", "float"} THEN Terminal(h, "scalar", val)
    ELSE IF val.k \in {"list", "ndarray"} THEN Terminal(h, "array", val)
    ELSE Terminal(h, "array", val)

\* binop, expression.py:94-102
binop(h, op, a, b) ==
    LET u == unify(h, op, a, b) IN
    IF u.err # "" THEN Raise(h, u.err) ELSE
    LET ra == unit(h, a) IN
    IF ra.err # "" THEN Raise(ra.heap, ra.err) ELSE
    LET rb == unit(ra.heap, b) IN
    IF rb.err # "" THEN Raise(rb.heap, rb.err) ELSE
    LET logic == Op(rb.heap, op, ra.ret, rb.ret) IN
    Value(logic.heap, u.ty, logic.ret)

\* map(unit, args), expression.py:106 (Python 2 map: eager, left to right)
RECURSIVE map_unit(_, _)
map_unit(h, args) ==
    IF args = <<>> THEN [heap |-> h, ret |-> <<>>, err |-> ""]
    ELSE LET r == unit(h, Head(args)) IN
         IF r.err # "" THEN [heap |-> r.heap, ret |-> <<>>, err |-> r.err]
         ELSE LET rest == map_unit(r.heap, Tail(args)) IN
              [heap |-> rest.heap, ret |-> <<r.ret>> \o rest.ret, err |-> rest.err]

\* A kernel that unifies the first operand with itself.
kernel_unary(h, kind, name, args) ==
    LET m == map_unit(h, args) IN
    IF m.err # "" THEN Raise(m.heap, m.err) ELSE
    IF Len(args) < 1 THEN Raise(m.heap, "IndexError") ELSE
    LET u == unify(m.heap, name, args[1], args[1]) IN
    IF u.err # "" THEN Raise(m.heap, u.err) ELSE
    LET logic == Kernel(m.heap, kind, name, m.ret) IN
    Value(logic.heap, u.ty, logic.ret)

\* kernel, expression.py:104-110.  args[0] and args[1] are subscripted
\* before unify is entered: an IndexError for fewer than two operands.
kernel(h, kind, name, args) ==
    LET m == map_unit(h, args) IN
    IF m.err # "" THEN Raise(m.heap, m.err) ELSE
    IF Len(args) < 2 THEN Raise(m.heap, "IndexError") ELSE
    LET u == unify(m.heap, name, args[1], args[2]) IN
    IF u.err # "" THEN Raise(m.heap, u.err) ELSE
    LET logic == Kernel(m.heap, kind, name, m.ret) IN
    Value(logic.heap, u.ty, logic.ret)

(***************************************************************************)
(* Backend oracle and evaluator                                            *)
(***************************************************************************)
BackendNames == {"numpy", "blir", "numexpr"}

\* An oracle that may decline to choose.
oracle_none(expr) == BackendNames \cup {"<None>"}

\* oracle, expression.py:112-113: the set random.choice draws from.
oracle(expr) == {"numpy", "blir", "numexpr"}

\* A Terminal.eval that unwraps the Terminal.
Terminal_eval_src(h, self) == h[self.v].src

\* Terminal.eval, expression.py:210-211
Terminal_eval(h, self) == self

(***************************************************************************)
(* State                                                                   *)
(***************************************************************************)
VARIABLES
    heap,        \* the objects constructed so far, in order of construction
    ret,         \* what the most recent call returned
    err,         \* the exception it raised, "" if none
    last,        \* the call of the current statement: name, arguments, heap size before
    proxy,       \* the view type returned by the most recent _proxy call
    stack,       \* the frames of Node.eval in progress, outermost first
    picked,      \* what oracle returned during the most recent call, in order
    dispatched   \* the backend functions the most recent call entered

vars == <<heap, ret, err, last, proxy, stack, picked, dispatched>>

Call(op, cls, sym, kind, args) ==
    [op |-> op, cls |-> cls, sym |-> sym, kind |-> kind, args |-> args,
     pre |-> Len(heap)]

Nodes(h, classes) == { NodeRef(i) : i \in { j \in 1..Len(h) : h[j].cls \in classes } }

\* What a caller may pass as an operand: a raw host value, a Terminal or a
\* Value.
Operands(h) == HostValues \cup Nodes(h, {"Terminal", "Value"})

\* The operand lists of fewer than two operands.
ShortLists(h) == {<<>>} \cup { <<a>> : a \in Operands(h) }

KernelSigs == { [kind |-> ZIPWITH, name |-> "add"], [kind |-> REDUCE, name |-> "dot"] }

Categories == {"array", "scalar", "matrix"}
Operators == {"+", "*"}
KernelNames == {"add", "dot"}
MethodNames == {"__add__", "__radd__", "__mul__", "dot"}
Backends == BackendNames \cup {"<None>", "unknown"}

NoCall == [op |-> "idle", cls |-> "", sym |-> "", kind |-> 0, args |-> <<>>, pre |-> 0]

\* The caller is between two statements: no call is in progress and no
\* result is held.
Idle == last.op = "idle" /\ stack = <<>>

Init ==
    /\ heap = <<>>
    /\ ret = None
    /\ err = ""
    /\ last = NoCall
    /\ proxy = NoView
    /\ stack = <<>>
    /\ picked = <<>>
    /\ dispatched = <<>>

\* A builder call that runs to its return or its exception.
Finish(r, call) ==
    /\ Idle
    /\ Len(r.heap) <= MaxNodes
    /\ heap' = r.heap
    /\ ret' = r.ret
    /\ err' = r.err
    /\ last' = call
    /\ proxy' = NoView
    /\ picked' = <<>>
    /\ dispatched' = <<>>
    /\ UNCHANGED stack

(***************************************************************************)
(* Calls                                                                   *)
(***************************************************************************)
\* Terminal(ty, src) as the script calls it (expression.py:228-232): a
\* number as 'scalar', a sequence as 'array'; and with a category that is
\* not registered.
NewTerminal ==
    \E ty \in Categories, src \in HostValues :
        /\ (ty = "array") = (src.k = "list")
        /\ Finish(Terminal(heap, ty, src), Call("Terminal", "Terminal", ty, 0, <<src>>))

NewValue ==
    \E ty \in Categories, ast \in Nodes(heap, {"Op", "Kernel"}) :
        Finish(Value(heap, ty, ast), Call("Value", "Value", ty, 0, <<ast>>))

MakeView ==
    \E cls \in {"Terminal", "Value"}, ty \in Categories :
        LET p == _proxy(cls, ty) IN
        /\ Idle
        /\ proxy' = p.view
        /\ err' = p.err
        /\ ret' = None
        /\ last' = Call("_proxy", cls, ty, 0, <<>>)
        /\ picked' = <<>>
        /\ dispatched' = <<>>
        /\ UNCHANGED <<heap, stack>>

Lift ==
    \E val \in Operands(heap) :
        Finish(unit(heap, val), Call("unit", "", "", 0, <<val>>))

Binop ==
    \E op \in Operators, a \in Operands(heap), b \in Operands(heap) :
        Finish(binop(heap, op, a, b), Call("binop", "", op, 0, <<a, b>>))

\* kernel called with two operands, for the kernels the registry itself
\* builds (expression.py:49-51).
KernelCall ==
    \E sig \in KernelSigs, a \in Operands(heap), b \in Operands(heap) :
        Finish(kernel(heap, sig.kind, sig.name, <<a, b>>),
               Call("kernel", "", sig.name, sig.kind, <<a, b>>))

\* kernel called with fewer than two operands, for every kind and name.
KernelShort ==
    \E kind \in KernelKinds, name \in KernelNames, args \in ShortLists(heap) :
        Finish(kernel(heap, kind, name, args), Call("kernel", "", name, kind, args))

\* self.name(other) on an instance of a view: the lambda registered under
\* name in the view's namespace (expression.py:49-56, 126-127).
Method ==
    \E self \in Nodes(heap, {"Terminal", "Value"}), name \in MethodNames,
       other \in Operands(heap) :
        LET ns == heap[self.v].view.ns
            f == ns[name]
            args == IF f.swap THEN <<other, self>> ELSE <<self, other>>
        IN /\ name \in DOMAIN ns
           /\ IF f.fn = "kernel"
              THEN Finish(kernel(heap, f.kind, f.sym, args),
                          Call("kernel", "", f.sym, f.kind, args))
              ELSE Finish(binop(heap, f.sym, args[1], args[2]),
                          Call("binop", "", f.sym, 0, args))

\* self.name where the view's namespace has no such name: the attribute
\* lookup fails before any argument is looked at.
MissingMethod ==
    \E self \in Nodes(heap, {"Terminal", "Value"}), name \in MethodNames :
        /\ name \notin DOMAIN heap[self.v].view.ns
        /\ Finish(Raise(heap, "AttributeError"),
                  Call("getattr", "", name, 0, <<self>>))

\* value.eval(backend), expression.py:136-138: enter Node.eval.
EvalCall ==
    \E self \in Nodes(heap, {"Value"}), backend \in Backends :
        /\ Idle
        /\ stack' = <<[self |-> self, backend |-> backend]>>
        /\ ret' = None
        /\ err' = ""
        /\ last' = Call("eval", "", backend, 0, <<self>>)
        /\ proxy' = NoView
        /\ picked' = <<>>
        /\ dispatched' = <<>>
        /\ UNCHANGED heap

\* expression.py:140-145: the backend is one of the three names; its
\* function is entered with expr and what it returns is returned by every
\* frame.  The backend's result is opaque: [k |-> backend, v |-> expr].
EvalDispatch ==
    /\ stack # <<>>
    /\ LET f == stack[Len(stack)]
           expr == heap[f.self.v].ast
       IN /\ f.backend \in {"numpy", "blir", "numexpr"}
          /\ dispatched' = Append(dispatched, [backend |-> f.backend, expr |-> expr])
          /\ ret' = [k |-> f.backend, v |-> expr.v]
    /\ stack' = <<>>
    /\ UNCHANGED <<heap, err, last, proxy, picked>>

\* expression.py:146-147: any other backend; self.eval(oracle(expr)).
EvalOracle ==
    /\ stack # <<>>
    /\ Len(stack) < MaxDepth
    /\ LET f == stack[Len(stack)]
           expr == heap[f.self.v].ast
       IN /\ f.backend \notin {"numpy", "blir", "numexpr"}
          /\ \E choice \in oracle(expr) :
                /\ picked' = Append(picked, choice)
                /\ stack' = Append(stack, [self |-> f.self, backend |-> choice])
    /\ UNCHANGED <<heap, ret, err, last, proxy, dispatched>>

\* terminal.eval(), expression.py:210-211
TerminalEval ==
    \E self \in Nodes(heap, {"Terminal"}) :
        /\ Idle
        /\ ret' = Terminal_eval(heap, self)
        /\ err' = ""
        /\ last' = Call("Terminal.eval", "", "", 0, <<self>>)
        /\ proxy' = NoView
        /\ picked' = <<>>
        /\ dispatched' = <<>>
        /\ UNCHANGED <<heap, stack>>

\* The calling script is done with the result of a statement and goes on
\* to the next one (expression.py:235-252: each statement makes a call and
\* prints what it returned).
Discard ==
    /\ stack = <<>>
    /\ last.op # "idle"
    /\ ret' = None
    /\ err' = ""
    /\ last' = NoCall
    /\ proxy' = NoView
    /\ picked' = <<>>
    /\ dispatched' = <<>>
    /\ UNCHANGED <<heap, stack>>

Next ==
    \/ NewTerminal
    \/ NewValue
    \/ MakeView
    \/ Lift
    \/ Binop
    \/ KernelCall
    \/ KernelShort
    \/ Method
    \/ MissingMethod
    \/ EvalCall
    \/ EvalDispatch
    \/ EvalOracle
    \/ TerminalEval
    \/ Discard

Spec == Init /\ [][Next]_vars

(***************************************************************************)
(* Properties                                                              *)
(***************************************************************************)
IsNode(val, classes) ==
    /\ val.k = "node"
    /\ val.v \in 1..Len(heap)
    /\ heap[val.v].cls \in classes

\* The nodes built by the current statement.
Fresh == (last.pre + 1)..Len(heap)

\* val is what lifting x gives: x itself when x is a Terminal, otherwise a
\* Terminal of x's category that wraps x.
CategoryOf(x) == IF x.k \in {"int", "long", "float"} THEN "scalar" ELSE "array"

IsLiftOf(val, x) ==
    IF IsNode(x, {"Terminal"}) THEN val = x
    ELSE /\ IsNode(val, {"Terminal"})
         /\ heap[val.v].ty = CategoryOf(x)
         /\ heap[val.v].src = x

LiftedCategory(x) == IF IsNode(x, {"Terminal"}) THEN heap[x.v].ty ELSE CategoryOf(x)

\* C1: evaluate(v, backend=name) with a name that is not registered fails
\* with UnknownBackend, enters no backend function and constructs no node.
C1_UnknownBackendFails ==
    (last.op = "eval" /\ last.sym \notin (BackendNames \cup {"<None>"})) =>
        /\ dispatched = <<>>
        /\ Len(heap) = last.pre
        /\ (stack = <<>> => err = "UnknownBackend")

\* C2: kernel(kind, name, [a]) with a single operand fails for each of the
\* five kinds (InsufficientOperands is Python's IndexError on args[1]); no
\* Value is returned and no Kernel or Value is built.
C2_SingleOperandFails ==
    (last.op = "kernel" /\ Len(last.args) = 1 /\ last.kind \in KernelKinds) =>
        /\ err = "IndexError"
        /\ ret = None
        /\ \A i \in Fresh : heap[i].cls \notin {"Kernel", "Value"}

C2_Witness ==
    /\ last.op = "kernel"
    /\ Len(last.args) = 1
    /\ last.kind = OUTER
    /\ IsNode(last.args[1], {"Value"})
    /\ err = "IndexError"

\* C3: binop(op, x, y) on raw scalar numbers returns a Value of category
\* 'scalar' whose graph is an Op with operator op, left lift(x) and right
\* lift(y).
C3_BinopOnRawScalars ==
    (last.op = "binop" /\ last.args[1] \in ScalarHosts /\ last.args[2] \in ScalarHosts) =>
        /\ err = ""
        /\ IsNode(ret, {"Value"})
        /\ heap[ret.v].ty = "scalar"
        /\ IsNode(heap[ret.v].ast, {"Op"})
        /\ LET g == heap[heap[ret.v].ast.v] IN
              /\ g.op = last.sym
              /\ IsLiftOf(g.left, last.args[1])
              /\ IsLiftOf(g.right, last.args[2])

\* C4: kernel(kind, name, operands) with two or more operands, each a raw
\* host value or a Terminal, returns a Value whose graph is a Kernel of that
\* kind and name over the lifted operands in order, and whose category is
\* that of the lifted first operand.
C4_KernelLeftBiased ==
    (/\ last.op = "kernel"
     /\ Len(last.args) >= 2
     /\ \A i \in 1..Len(last.args) :
            last.args[i] \in HostValues \/ IsNode(last.args[i], {"Terminal"})) =>
        /\ err = ""
        /\ IsNode(ret, {"Value"})
        /\ heap[ret.v].ty = LiftedCategory(last.args[1])
        /\ IsNode(heap[ret.v].ast, {"Kernel"})
        /\ LET g == heap[heap[ret.v].ast.v] IN
              /\ g.kind = last.kind
              /\ g.name = last.sym
              /\ Len(g.args) = Len(last.args)
              /\ \A i \in 1..Len(last.args) : IsLiftOf(g.args[i], last.args[i])

\* C5: lift of a Terminal returns that very Terminal, lift of a Value
\* returns the graph node the Value holds, and neither builds a node.
C5_LiftDoesNotRewrap ==
    (last.op = "unit" /\ IsNode(last.args[1], {"Terminal", "Value"})) =>
        /\ err = ""
        /\ Len(heap) = last.pre
        /\ IsNode(last.args[1], {"Terminal"}) => ret = last.args[1]
        /\ IsNode(last.args[1], {"Value"}) =>
              /\ ret = heap[last.args[1].v].ast
              /\ IsNode(ret, {"Op", "Kernel"})

C5_Witness ==
    /\ last.op = "unit"
    /\ IsNode(last.args[1], {"Value"})
    /\ IsNode(ret, {"Kernel"})

\* C6 as stated: evaluate(t) on a Terminal returns the source object that t
\* wraps, and calls no backend.
C6_TerminalEvalReturnsSource ==
    last.op = "Terminal.eval" =>
        /\ err = ""
        /\ ret = heap[last.args[1].v].src
        /\ picked = <<>>
        /\ dispatched = <<>>

\* C6 amended: evaluate(t) on a Terminal returns the Terminal t itself, not
\* the source it wraps; it selects and calls no backend and builds no node.
C6_TerminalEvalReturnsSelf ==
    last.op = "Terminal.eval" =>
        /\ err = ""
        /\ ret = last.args[1]
        /\ IsNode(ret, {"Terminal"})
        /\ ret # heap[ret.v].src
        /\ picked = <<>>
        /\ dispatched = <<>>
        /\ Len(heap) = last.pre

C6_Witness ==
    /\ last.op = "Terminal.eval"
    /\ IsNode(ret, {"Terminal"})
    /\ heap[ret.v].ty = "array"

\* C7: the oracle only ever returns a registered backend name; evaluate on a
\* Value with backend omitted draws from it once, then enters exactly that
\* backend's function once with the Value's graph node, and ends: a frame
\* of eval in progress can always take its step, and at most two frames are
\* ever needed.
C7_OracleThenOneDispatch ==
    /\ \A i \in 1..Len(picked) : picked[i] \in BackendNames
    /\ stack # <<>> => ENABLED (EvalDispatch \/ EvalOracle)
    /\ (last.op = "eval" /\ last.sym = "<None>") =>
          /\ Len(stack) <= 2
          /\ Len(picked) <= 1
          /\ Len(stack) = 1 => picked = <<>> /\ dispatched = <<>>
          /\ Len(stack) = 2 =>
                /\ Len(picked) = 1
                /\ stack[2].backend = picked[1]
                /\ dispatched = <<>>
          /\ stack = <<>> =>
                /\ err = ""
                /\ Len(picked) = 1
                /\ dispatched = <<[backend |-> picked[1],
                                   expr |-> heap[last.args[1].v].ast]>>
                /\ ret.k = picked[1]

C7_Witness ==
    /\ last.op = "eval"
    /\ last.sym = "<None>"
    /\ stack = <<>>
    /\ Len(dispatched) = 1
    /\ dispatched[1].backend = "numexpr"

\* C8: the view of a registered category c, for Terminal and for Value,
\* carries category c and has as its operations exactly the names
\* registered for c; asking for a view of, or constructing a Terminal or
\* Value with, a category that is not registered fails (UnknownCategory is
\* Python's KeyError) and yields no node.
ViewOf(view, cls, c) ==
    /\ view.name = cls
    /\ view.ty = c
    /\ DOMAIN view.ns = DOMAIN module[c]
    /\ c = "scalar" => "dot" \notin DOMAIN view.ns
    /\ c = "array" => "__mul__" \notin DOMAIN view.ns

C8_ViewsMatchRegistry ==
    /\ \A i \in 1..Len(heap) :
          heap[i].cls \in {"Terminal", "Value"} =>
              /\ heap[i].ty \in DOMAIN module
              /\ ViewOf(heap[i].view, heap[i].cls, heap[i].ty)
    /\ last.op = "_proxy" =>
          IF last.sym \in DOMAIN module
          THEN err = "" /\ ViewOf(proxy, last.cls, last.sym)
          ELSE err = "KeyError" /\ proxy = NoView
    /\ (last.op \in {"_proxy", "Terminal", "Value"} /\ last.sym \notin DOMAIN module) =>
          /\ err = "KeyError"
          /\ ret = None
          /\ Len(heap) = last.pre

C8_Witness ==
    /\ last.op = "Value"
    /\ last.sym = "scalar"
    /\ err = ""
    /\ IsNode(ret, {"Value"})
    /\ DOMAIN heap[ret.v].view.ns = {"__add__", "__mul__"}

\* C9 as stated: every operand of every Op and Kernel is a Terminal or a
\* Value, never a raw host value, and no Kernel has an empty operand list.
OperandsOf(n) ==
    IF n.cls = "Op" THEN {n.left, n.right}
    ELSE IF n.cls = "Kernel" THEN { n.args[i] : i \in 1..Len(n.args) }
    ELSE {}

C9_OperandsAreTerminalsOrValues ==
    \A i \in 1..Len(heap) :
        /\ \A x \in OperandsOf(heap[i]) : IsNode(x, {"Terminal", "Value"})
        /\ heap[i].cls = "Kernel" => heap[i].args # <<>>

\* C9 amended: every operand of every Op and Kernel is a Terminal or the Op
\* or Kernel that a Value operand held (lift unwraps a Value), never a raw
\* host value and never a Value; no Kernel has an empty operand list.
C9_OperandsAreLifted ==
    \A i \in 1..Len(heap) :
        /\ \A x \in OperandsOf(heap[i]) : IsNode(x, {"Terminal", "Op", "Kernel"})
        /\ heap[i].cls = "Kernel" => heap[i].args # <<>>

C9_Witness ==
    /\ last.op = "kernel"
    /\ err = ""
    /\ IsNode(last.args[1], {"Terminal"})
    /\ IsNode(last.args[2], {"Value"})
    /\ IsNode(heap[Len(heap) - 1].args[2], {"Op"})

\* C10: the graph is append-only and acyclic.  A binop or kernel call that
\* returns has built a new Op or Kernel and a new Value on top of it; every
\* node refers only to nodes built before it; no step changes a node that
\* exists; no node is reachable from itself.
Refs(h, i) ==
    LET n == h[i]
        held == IF n.cls = "Value" THEN {n.ast}
                ELSE IF n.cls = "Op" THEN {n.left, n.right}
                ELSE IF n.cls = "Kernel" THEN { n.args[j] : j \in 1..Len(n.args) }
                ELSE {}
    IN { x.v : x \in { y \in held : y.k = "node" } }

RECURSIVE ReachableFrom(_, _, _)
ReachableFrom(h, frontier, seen) ==
    LET next == (UNION { Refs(h, i) : i \in frontier }) \ seen
    IN IF next = {} THEN seen
       ELSE ReachableFrom(h, next, seen \cup next)

Acyclic == \A i \in 1..Len(heap) : i \notin ReachableFrom(heap, {i}, {})

RefsOlder == \A i \in 1..Len(heap) : \A j \in Refs(heap, i) : j < i

BuildsNewNodes ==
    (last.op \in {"binop", "kernel"} /\ stack = <<>> /\ err = "") =>
        /\ Len(heap) >= last.pre + 2
        /\ ret = NodeRef(Len(heap))
        /\ heap[Len(heap)].cls = "Value"
        /\ heap[Len(heap)].ast = NodeRef(Len(heap) - 1)
        /\ heap[Len(heap) - 1].cls \in {"Op", "Kernel"}

AppendOnly ==
    /\ Len(heap') >= Len(heap)
    /\ \A i \in 1..Len(heap) : heap'[i] = heap[i]

C10_AppendOnlyAcyclic ==
    /\ [](RefsOlder /\ Acyclic /\ BuildsNewNodes)
    /\ [][AppendOnly]_vars

C10_Witness ==
    /\ last.op = "binop"
    /\ err = ""
    /\ IsNode(last.args[1], {"Value"})
    /\ IsNode(last.args[2], {"Value"})
    /\ Len(heap) = last.pre + 2

====
